---- MODULE Spec2Model ----
(***************************************************************************)
(* A model of src/tracer.py: the reverse-reachability path enumerator      *)
(* (build_reverse, rev_paths), the sink detector (collect_sinks) and the   *)
(* snippet extractor (_slice_by_lines, extract_snippet).                   *)
(*                                                                         *)
(* Three independent state machines share the module, one per component:   *)
(*   SpecRev / FairSpecRev   build_reverse + the generator rev_paths       *)
(*   SpecSinks               collect_sinks, run repeatedly on one index    *)
(*   SpecExtract             extract_snippet over an arbitrary index       *)
(* Each machine leaves the variables of the other two at their idle value. *)
(***************************************************************************)
EXTENDS Integers, Sequences, FiniteSets, TLC

VARIABLES
    \* ---- rev_paths ----
    edges,      \* the input edge list: a sequence of <<caller, callee>>
    sink,       \* the node the enumeration starts from
    entries,    \* the entry predicate, as the set of nodes satisfying it
    rev,        \* build_reverse(edges): callee -> list of callers
    stack,      \* the work stack of frames <<node, path>>
    seen,       \* the set of finalized paths already yielded
    yielded,    \* the sequence of paths the generator has yielded so far
    pc,         \* "idle" (not called), "loop" (in the while loop), "done"
    \* ---- collect_sinks / extract_snippet ----
    src,        \* the source buffer, a sequence of symbols
    offsets,    \* the offset index: a sequence of entries in insertion order
    func_index, \* the mapping collect_sinks returned last
    prev_index, \* the mapping returned by the run before the last one
    prev_offsets, \* the offset index as it was after the run before the last
    runs,       \* how many times collect_sinks has run
    res         \* the last result of extract_snippet, with the key asked

vars == <<edges, sink, entries, rev, stack, seen, yielded, pc,
          src, offsets, func_index, prev_index, prev_offsets, runs, res>>

revVars == <<edges, sink, entries, rev, stack, seen, yielded, pc>>
idxVars == <<src, offsets, func_index, prev_index, prev_offsets, runs, res>>

\* ------------------------------------------------------------------------
\* Bounds
\* ------------------------------------------------------------------------
MaxEdges == 3   \* longest edge list
MaxBuf == 3     \* longest source buffer, in symbols
MaxRuns == 2    \* how many times collect_sinks runs on one index

\* The qualified identifiers of the call graph. rev_paths never looks inside
\* a node name; the entry predicate is a parameter.
Nodes == {"A", "B", "C"}

\* All sequences over S of length at most n.
SeqUpTo(S, n) == UNION {[1..k -> S] : k \in 0..n}

Last(s) == s[Len(s)]

\* ------------------------------------------------------------------------
\* build_reverse
\* ------------------------------------------------------------------------
\* A build_reverse that assigns the caller instead of appending it.
AppendCallerOverwrite(r, u, v) == [r EXCEPT ![v] = <<u>>]

\* rev[v].append(u): one iteration of the loop of build_reverse.
AppendCaller(r, u, v) == [r EXCEPT ![v] = Append(@, u)]

RECURSIVE BuildFrom(_, _)
BuildFrom(r, es) ==
    IF es = <<>> THEN r
    ELSE BuildFrom(AppendCaller(r, es[1][1], es[1][2]), Tail(es))

\* The defaultdict(list) is modelled as a total function: a callee without
\* callers maps to the empty list, which is what rev.get(node, []) reads.
build_reverse(es) == BuildFrom([n \in Nodes |-> <<>>], es)

\* ------------------------------------------------------------------------
\* rev_paths
\* ------------------------------------------------------------------------
\* rev.get(node, [])
Preds(r, node) == r[node]

\* entry_pred(node)
entry_pred(node) == node \in entries

\* `not preds or entry_pred(node)`
IsTerminal(r, node) == Preds(r, node) = <<>> \/ entry_pred(node)

\* A rev_paths without its cycle guard.
InPathNever(p, path) == FALSE

\* `p in path`
InPath(p, path) == \E i \in 1..Len(path) : path[i] = p

\* A rev_paths that yields the path as collected, sink first.
FinalizeNoReverse(path) == path

\* tuple(reversed(path))
Finalize(path) == [i \in 1..Len(path) |-> path[Len(path) + 1 - i]]

\* A rev_paths that never consults seen.
NotSeenAlways(tup, seenSet) == TRUE

\* `tup not in seen`
NotSeen(tup, seenSet) == tup \notin seenSet

\* A rev_paths that reads the top frame (stack[-1]) without removing it.
PopKeep(st) == st

\* stack.pop(): the stack without its last frame.
Pop(st) == SubSeq(st, 1, Len(st) - 1)

\* The for loop over preds: every predecessor that is not in the path is
\* pushed, in list order, with the path extended by it.
RECURSIVE PushPreds(_, _, _)
PushPreds(st, preds, path) ==
    IF preds = <<>> THEN st
    ELSE PushPreds(IF InPath(preds[1], path) THEN st
                   ELSE Append(st, <<preds[1], Append(path, preds[1])>>),
                   Tail(preds), path)

IdleIdx ==
    /\ src = <<>>
    /\ offsets = <<>>
    /\ func_index = <<>>
    /\ prev_index = <<>>
    /\ prev_offsets = <<>>
    /\ runs = 0
    /\ res = <<>>

InitRev ==
    /\ edges \in SeqUpTo(Nodes \X Nodes, MaxEdges)
    /\ sink \in Nodes
    /\ entries \in SUBSET Nodes
    /\ rev = [n \in Nodes |-> <<>>]
    /\ stack = <<>>
    /\ seen = {}
    /\ yielded = <<>>
    /\ pc = "idle"
    /\ IdleIdx

\* rev = build_reverse(edges), then the first lines of rev_paths.
Start ==
    /\ pc = "idle"
    /\ rev' = build_reverse(edges)
    /\ stack' = << <<sink, <<sink>> >> >>
    /\ seen' = {}
    /\ pc' = "loop"
    /\ UNCHANGED <<edges, sink, entries, yielded>>
    /\ UNCHANGED idxVars

\* One iteration of the while loop that reaches the yield.
YieldPath ==
    /\ pc = "loop"
    /\ stack # <<>>
    /\ LET node == Last(stack)[1]
           path == Last(stack)[2]
           tup  == Finalize(path)
       IN  /\ IsTerminal(rev, node)
           /\ NotSeen(tup, seen)
           /\ seen' = seen \cup {tup}
           /\ yielded' = Append(yielded, tup)
           /\ stack' = Pop(stack)
    /\ UNCHANGED <<edges, sink, entries, rev, pc>>
    /\ UNCHANGED idxVars

\* One iteration that finds the finalized path in seen and continues.
SkipSeen ==
    /\ pc = "loop"
    /\ stack # <<>>
    /\ LET node == Last(stack)[1]
           path == Last(stack)[2]
           tup  == Finalize(path)
       IN  /\ IsTerminal(rev, node)
           /\ ~NotSeen(tup, seen)
           /\ stack' = Pop(stack)
    /\ UNCHANGED <<edges, sink, entries, rev, seen, yielded, pc>>
    /\ UNCHANGED idxVars

\* One iteration that expands a node that is not terminal.
Expand ==
    /\ pc = "loop"
    /\ stack # <<>>
    /\ LET node == Last(stack)[1]
           path == Last(stack)[2]
       IN  /\ ~IsTerminal(rev, node)
           /\ stack' = PushPreds(Pop(stack), Preds(rev, node), path)
    /\ UNCHANGED <<edges, sink, entries, rev, seen, yielded, pc>>
    /\ UNCHANGED idxVars

\* `while stack` is false: the generator returns.
Finish ==
    /\ pc = "loop"
    /\ stack = <<>>
    /\ pc' = "done"
    /\ UNCHANGED <<edges, sink, entries, rev, stack, seen, yielded>>
    /\ UNCHANGED idxVars

NextRev == Start \/ YieldPath \/ SkipSeen \/ Expand \/ Finish

SpecRev == InitRev /\ [][NextRev]_vars

\* The generator is driven to exhaustion by the for loop of its caller, so
\* every enabled iteration is eventually taken.
FairSpecRev == SpecRev /\ WF_vars(NextRev)

\* ------------------------------------------------------------------------
\* The source buffer and the offset index
\* ------------------------------------------------------------------------
\* collect_sinks reads the buffer through its patterns and through
\* src.find(';'). The buffer is modelled at that granularity: one position
\* per symbol, where a symbol is a piece of text matched by one catalogue
\* pattern ("call" for an occurrence of \.call\s*\(, "send" for an occurrence
\* of \.send\s*\(), the statement terminator ";", a newline, or other text.
\* Offsets and lengths count symbols.
SinkAlphabet == {"call", "send", ";", "x"}
TextAlphabet == {"a", "\n"}

\* The catalogue, in dict insertion order. Two of its eight entries are
\* modelled; 'call' comes before 'send' in the source as well.
Patterns == <<"call", "send">>

\* Qualified identifiers are sequences of their '::'-separated parts:
\* "C::" is <<"C", "">>, "C::f" is <<"C", "f">> and
\* "C::f::SINK::call::0" is <<"C", "f", "SINK", "call", "0">>.
Contract == <<"C", "">>
FnF == <<"C", "f">>
FnG == <<"C", "g">>

\* fn.endswith('::')
EndsWithSep(key) == Last(key) = ""

Entry(key, start, length) == [key |-> key, start |-> start, length |-> length]

\* The position of key in the index, 0 when it is not there.
RECURSIVE IndexOfKey(_, _, _)
IndexOfKey(offs, key, i) ==
    IF i > Len(offs) THEN 0
    ELSE IF offs[i].key = key THEN i
    ELSE IndexOfKey(offs, key, i + 1)

\* offsets[key] = (start, length): a dict keeps the position of a key it
\* already holds and appends a new one.
SetOffset(offs, key, start, length) ==
    LET i == IndexOfKey(offs, key, 1)
    IN  IF i = 0 THEN Append(offs, Entry(key, start, length))
        ELSE [offs EXCEPT ![i] = Entry(key, start, length)]

\* ------------------------------------------------------------------------
\* collect_sinks
\* ------------------------------------------------------------------------
\* A scan that visits the matches of a pattern from the end of the buffer.
RECURSIVE FindIterBackward(_, _, _)
FindIterBackward(s, typ, i) ==
    IF i > Len(s) THEN <<>>
    ELSE IF s[i] = typ THEN FindIterBackward(s, typ, i + 1) \o <<i - 1>>
    ELSE FindIterBackward(s, typ, i + 1)

\* regex.finditer(src) for the pattern of type typ: the 0-based starts of
\* its matches, ascending.
RECURSIVE FindIter(_, _, _)
FindIter(s, typ, i) ==
    IF i > Len(s) THEN <<>>
    ELSE IF s[i] = typ THEN <<i - 1>> \o FindIter(s, typ, i + 1)
    ELSE FindIter(s, typ, i + 1)

\* len(m.group(0)): a match is one symbol.
MatchLen == 1

\* src.find(';', start): the 0-based position of the first ';' at or after
\* start, -1 when there is none.
RECURSIVE FindSemi(_, _)
FindSemi(s, start) ==
    IF start >= Len(s) THEN -1
    ELSE IF s[start + 1] = ";" THEN start
    ELSE FindSemi(s, start + 1)

\* The statement extent of a match: one past the terminator, or the end of
\* the matched text when there is no terminator.
StatementEnd(s, start) ==
    LET e == FindSemi(s, start)
    IN  IF e = -1 THEN start + MatchLen ELSE e + 1

\* `fs <= start < fs + fl`
Contains(e, start) == e.start <= start /\ start < e.start + e.length

\* The loop over offsets.items(): the position of the first entry, in
\* insertion order, that is no contract and contains start; 0 if none.
RECURSIVE FirstContaining(_, _, _)
FirstContaining(offs, start, i) ==
    IF i > Len(offs) THEN 0
    ELSE IF ~EndsWithSep(offs[i].key) /\ Contains(offs[i], start) THEN i
    ELSE FirstContaining(offs, start, i + 1)

\* func_index[fn] of the defaultdict(list)
SinksOf(fi, fn) == IF fn \in DOMAIN fi THEN fi[fn] ELSE <<>>

\* f"{fn}::SINK::{typ}::{n}"
SinkKey(fn, typ, n) == fn \o <<"SINK", typ, ToString(n)>>

\* The body of the loop over the matches; st is [offs, fi].
ProcessMatch(st, s, typ, start) ==
    LET end == StatementEnd(s, start)
        i   == FirstContaining(st.offs, start, 1)
    IN  IF i = 0 THEN st
        ELSE LET fn  == st.offs[i].key
                 key == SinkKey(fn, typ, Len(SinksOf(st.fi, fn)))
             IN  [offs |-> SetOffset(st.offs, key, start, end - start),
                  fi   |-> (fn :> Append(SinksOf(st.fi, fn), key)) @@ st.fi]

RECURSIVE ScanMatches(_, _, _, _)
ScanMatches(st, s, typ, ms) ==
    IF ms = <<>> THEN st
    ELSE ScanMatches(ProcessMatch(st, s, typ, ms[1]), s, typ, Tail(ms))

RECURSIVE ScanPatterns(_, _, _)
ScanPatterns(st, s, ps) ==
    IF ps = <<>> THEN st
    ELSE ScanPatterns(ScanMatches(st, s, ps[1], FindIter(s, ps[1], 1)),
                      s, Tail(ps))

\* collect_sinks(src, offsets): the index as mutated, and the mapping
\* returned.
collect_sinks(s, offs) == ScanPatterns([offs |-> offs, fi |-> <<>>], s, Patterns)

IdleRev ==
    /\ edges = <<>>
    /\ sink = "A"
    /\ entries = {}
    /\ rev = [n \in Nodes |-> <<>>]
    /\ stack = <<>>
    /\ seen = {}
    /\ yielded = <<>>
    /\ pc = "idle"

\* The spans with start + length <= n.
Spans(n) == {sp \in (0..n) \X (0..n) : sp[1] + sp[2] <= n}

\* The index as main builds it from the description of one contract with
\* two functions: every span lies within the buffer; function spans may
\* overlap, nothing in the code prevents it.
InitSinks ==
    /\ src \in SeqUpTo(SinkAlphabet, MaxBuf)
    /\ \E f \in Spans(Len(src)), g \in Spans(Len(src)) :
          offsets = <<Entry(Contract, 0, Len(src)),
                      Entry(FnF, f[1], f[2]),
                      Entry(FnG, g[1], g[2])>>
    /\ func_index = <<>>
    /\ prev_index = <<>>
    /\ prev_offsets = <<>>
    /\ runs = 0
    /\ res = <<>>
    /\ IdleRev

\* One call of collect_sinks on the buffer and the index as they are.
CollectSinks ==
    /\ runs < MaxRuns
    /\ LET out == collect_sinks(src, offsets)
       IN  /\ offsets' = out.offs
           /\ func_index' = out.fi
    /\ prev_index' = func_index
    /\ prev_offsets' = offsets
    /\ runs' = runs + 1
    /\ UNCHANGED <<src, res>>
    /\ UNCHANGED revVars

NextSinks == CollectSinks

SpecSinks == InitSinks /\ [][NextSinks]_vars

\* ------------------------------------------------------------------------
\* _slice_by_lines, extract_snippet
\* ------------------------------------------------------------------------
Min(a, b) == IF a < b THEN a ELSE b

\* src[lo:hi] for 0 <= lo: both ends are clamped to the length, and an end
\* before the start gives the empty string.
Slice(s, lo, hi) == SubSeq(s, Min(lo, Len(s)) + 1, Min(hi, Len(s)))

\* s.count("\n")
RECURSIVE CountNewlines(_)
CountNewlines(s) ==
    IF s = <<>> THEN 0
    ELSE (IF s[1] = "\n" THEN 1 ELSE 0) + CountNewlines(Tail(s))

\* A _slice_by_lines whose line numbers are 0-based.
slice_by_lines_zero_based(s, start, length) ==
    <<Slice(s, start, start + length), CountNewlines(Slice(s, 0, start))>>

\* _slice_by_lines(src, start, length) = (snippet, first_line)
slice_by_lines(s, start, length) ==
    <<Slice(s, start, start + length), CountNewlines(Slice(s, 0, start)) + 1>>

\* extract_snippet(src, func, offsets): <<"none">> for None, else
\* <<"some", snippet, first_line>>.
extract_snippet(s, func, offs) ==
    LET i == IndexOfKey(offs, func, 1)
    IN  IF i = 0 THEN <<"none">>
        ELSE <<"some">> \o slice_by_lines(s, offs[i].start, offs[i].length)

\* Any index with one function entry: the span is two naturals, consistent
\* with the buffer or not.
InitExtract ==
    /\ src \in SeqUpTo(TextAlphabet, MaxBuf)
    /\ \E st \in 0..(MaxBuf + 1), ln \in 0..(MaxBuf + 1) :
          offsets = <<Entry(FnF, st, ln)>>
    /\ func_index = <<>>
    /\ prev_index = <<>>
    /\ prev_offsets = <<>>
    /\ runs = 0
    /\ res = <<>>
    /\ IdleRev

\* One call of extract_snippet; res keeps the key asked and the result.
ExtractSnippet ==
    /\ \E func \in {FnF, FnG} :
          res' = <<func>> \o extract_snippet(src, func, offsets)
    /\ UNCHANGED <<src, offsets, func_index, prev_index, prev_offsets, runs>>
    /\ UNCHANGED revVars

NextExtract == ExtractSnippet

SpecExtract == InitExtract /\ [][NextExtract]_vars

\* ------------------------------------------------------------------------
\* Properties of rev_paths (SpecRev, FairSpecRev)
\* ------------------------------------------------------------------------
\* (u, v) is an edge of the input.
IsEdge(u, v) == \E k \in 1..Len(edges) : edges[k] = <<u, v>>

\* n has a predecessor in the input edge list.
HasPred(n) == \E k \in 1..Len(edges) : edges[k][2] = n

NoRepeat(p) == \A i, j \in 1..Len(p) : i # j => p[i] # p[j]

\* C1 as stated: every yielded path starts with a node that satisfies
\* is_entry.
C1_FirstIsEntry ==
    \A i \in 1..Len(yielded) : yielded[i][1] \in entries

\* C1 amended: every yielded path starts with a node that satisfies
\* is_entry or has no predecessor in the edge set.
C1_FirstIsEntryOrRoot ==
    \A i \in 1..Len(yielded) :
        yielded[i][1] \in entries \/ ~HasPred(yielded[i][1])

\* C1 witness: a finished enumeration that yielded a path starting at an
\* entry that has callers, and another starting at a root that is no entry.
C1_Witness ==
    /\ pc = "done"
    /\ \E i, j \in 1..Len(yielded) :
          /\ yielded[i][1] \in entries
          /\ HasPred(yielded[i][1])
          /\ Len(yielded[i]) >= 2
          /\ yielded[j][1] \notin entries
          /\ Len(yielded[j]) >= 2

\* C2: every yielded path ends at the sink and holds no node twice.
C2_EndsAtSinkNoRepeat ==
    \A i \in 1..Len(yielded) :
        /\ yielded[i][Len(yielded[i])] = sink
        /\ NoRepeat(yielded[i])

\* C2 witness: a finished enumeration over a graph with a self-loop on a
\* node of a yielded path of two or more nodes.
C2_Witness ==
    /\ pc = "done"
    /\ \E i \in 1..Len(yielded) :
          /\ Len(yielded[i]) >= 2
          /\ \E k \in 1..Len(yielded[i]) :
                /\ IsEdge(yielded[i][k], yielded[i][k])
                /\ yielded[i][k] \notin entries

\* The sequences C3 speaks of: repetition-free, along edges, ending at the
\* sink, starting at a root or an entry, with no entry after the start.
CompletePaths ==
    {p \in SeqUpTo(Nodes, Cardinality(Nodes)) :
        /\ Len(p) >= 1
        /\ NoRepeat(p)
        /\ p[Len(p)] = sink
        /\ \A i \in 1..(Len(p) - 1) : IsEdge(p[i], p[i + 1])
        /\ (~HasPred(p[1]) \/ p[1] \in entries)
        /\ \A i \in 2..Len(p) : p[i] \notin entries}

\* C3: when the enumeration has finished, every such sequence has been
\* yielded.
C3_Complete ==
    pc = "done" => \A p \in CompletePaths : \E i \in 1..Len(yielded) : yielded[i] = p

\* C3 witness: a finished enumeration with two such sequences, one of them
\* of three nodes.
C3_Witness ==
    /\ pc = "done"
    /\ \E p, q \in CompletePaths : p # q /\ Len(p) = 3

\* C4: no two yields of one enumeration are equal.
C4_NoDuplicatePaths ==
    \A i, j \in 1..Len(yielded) : i # j => yielded[i] # yielded[j]

\* C4 witness: a finished enumeration over an edge list that repeats an
\* edge from an entry into the sink, so the same path is completed twice.
C4_Witness ==
    /\ pc = "done"
    /\ sink \notin entries
    /\ \E k, l \in 1..Len(edges) :
          /\ k # l
          /\ edges[k] = edges[l]
          /\ edges[k][2] = sink
          /\ edges[k][1] # sink
          /\ edges[k][1] \in entries

\* C5: the enumeration terminates: eventually the stack is empty and the
\* generator has returned.
C5_Terminates == <>(pc = "done" /\ stack = <<>>)

\* C5 witness: a finished enumeration, with a yield, over a graph with a
\* cycle through the sink that the search walked into.
C5_Witness ==
    /\ pc = "done"
    /\ Len(yielded) >= 1
    /\ sink \notin entries
    /\ \E u \in Nodes \ entries :
          u # sink /\ IsEdge(u, sink) /\ IsEdge(sink, u)

\* ------------------------------------------------------------------------
\* Properties of collect_sinks (SpecSinks)
\* ------------------------------------------------------------------------
IsSinkKey(key) == Len(key) >= 5 /\ key[Len(key) - 2] = "SINK"

\* The identifier that prefixes a sink key.
PrefixOf(key) == SubSeq(key, 1, Len(key) - 3)

\* The start recorded in the index for key.
StartOf(key) == offsets[IndexOfKey(offsets, key, 1)].start

\* The place of a pattern type in the catalogue.
RankOf(typ) == CHOOSE r \in 1..Len(Patterns) : Patterns[r] = typ

\* C6 as stated: the span of every sink entry lies within the span of the
\* function identifier that prefixes it.
C6_SinkSpanInsideFunction ==
    \A i \in 1..Len(offsets) :
        IsSinkKey(offsets[i].key) =>
            LET j == IndexOfKey(offsets, PrefixOf(offsets[i].key), 1)
            IN  /\ j # 0
                /\ offsets[j].start <= offsets[i].start
                /\ offsets[i].start + offsets[i].length
                       <= offsets[j].start + offsets[j].length

\* C7 as stated: a second run on the same buffer and index returns the
\* mapping of the first and leaves the index as the first left it.
C7_Idempotent ==
    runs >= 2 => func_index = prev_index /\ offsets = prev_offsets

\* The sinks of every function are numbered 0, 1, 2, ... in list order.
OrdinalsFromZero ==
    \A fn \in DOMAIN func_index :
        \A i \in 1..Len(func_index[fn]) :
            LET key == func_index[fn][i]
            IN  /\ IsSinkKey(key)
                /\ PrefixOf(key) = fn
                /\ key[Len(key)] = ToString(i - 1)
                /\ IndexOfKey(offsets, key, 1) # 0

\* C8 as stated: ordinals are per function, from 0, and a sink that starts
\* earlier in the buffer never has the larger ordinal.
C8_OrdinalsInBufferOrder ==
    runs >= 1 =>
        /\ OrdinalsFromZero
        /\ \A fn \in DOMAIN func_index :
              \A i, j \in 1..Len(func_index[fn]) :
                  StartOf(func_index[fn][i]) < StartOf(func_index[fn][j]) => i < j

\* C8 amended: ordinals are per function, from 0, in the order of the scan:
\* a sink of an earlier catalogue pattern has the smaller ordinal, and of
\* two sinks of one pattern the one that starts earlier has the smaller.
C8_OrdinalsInScanOrder ==
    runs >= 1 =>
        /\ OrdinalsFromZero
        /\ \A fn \in DOMAIN func_index :
              \A i, j \in 1..Len(func_index[fn]) :
                  LET ki == func_index[fn][i]
                      kj == func_index[fn][j]
                      ri == RankOf(ki[Len(ki) - 1])
                      rj == RankOf(kj[Len(kj) - 1])
                  IN  (ri < rj \/ (ri = rj /\ StartOf(ki) < StartOf(kj))) => i < j

\* C8 witness: after a run, a function with two sinks of which the one with
\* the larger ordinal starts earlier in the buffer.
C8_Witness ==
    /\ runs >= 1
    /\ \E fn \in DOMAIN func_index :
          \E i, j \in 1..Len(func_index[fn]) :
              i < j /\ StartOf(func_index[fn][j]) < StartOf(func_index[fn][i])

\* ------------------------------------------------------------------------
\* Properties of extract_snippet (SpecExtract)
\* ------------------------------------------------------------------------
\* extract_snippet has been called with the one key of the index.
CalledOnEntry == Len(res) >= 2 /\ res[1] = offsets[1].key

SpanInBuffer == offsets[1].start + offsets[1].length <= Len(src)

\* C9 as stated: for an entry whose span exceeds the buffer, extract_snippet
\* returns absent.
C9_MalformedSpanIsMiss ==
    (CalledOnEntry /\ ~SpanInBuffer) => res[2] = "none"

\* C10: for an entry whose span lies in the buffer, extract_snippet returns
\* the `length` symbols from `start` on, and first_line is 1 plus the number
\* of newlines before start.
C10_RoundTrip ==
    (CalledOnEntry /\ SpanInBuffer) =>
        /\ res[2] = "some"
        /\ Len(res[3]) = offsets[1].length
        /\ \A i \in 1..offsets[1].length : res[3][i] = src[offsets[1].start + i]
        /\ res[4] = 1 + Cardinality({i \in 1..offsets[1].start : src[i] = "\n"})

\* C10 witness: a call on a non-empty span that starts after a newline.
C10_Witness ==
    /\ CalledOnEntry
    /\ SpanInBuffer
    /\ offsets[1].length >= 1
    /\ \E i \in 1..offsets[1].start : src[i] = "\n"
    /\ res[4] >= 2

====
